---- MODULE Spec2Model ----
(***************************************************************************)
(* TaskManager: the task store contract (contracts/TaskManager.sol).       *)
(* Every external state-changing function is one action; a call that       *)
(* reverts leaves the contract storage unchanged and only records its      *)
(* revert reason in `last`, the receipt of the most recent transaction.    *)
(* View functions are operators over the current storage.                  *)
(* The frontend (TaskList, TaskItem, page.tsx, utils/contract.js) is the    *)
(* page of one connected account: its handlers are actions that run from    *)
(* one await to the next.                                                   *)
(***************************************************************************)
EXTENDS Integers, Sequences, FiniteSets, TLC

\* ------------------------------------------------------------------ bounds
MaxTasks == 2            \* successful addTask calls explored (cap of _taskIdCounter)
MaxTicks == 1            \* days by which block.timestamp advances
MaxCalls == 2            \* frontend handler invocations in flight at once

\* --------------------------------------------------------------- constants
Low == 0                 \* enum Priority { Low, Medium, High }
Medium == 1
High == 2
DefaultMaxTasks == 100   \* the constructor's _maxTasksPerUser
OneDay == 86400          \* `1 days`
OneHour == 3600          \* the offset of the "Due Soon 1" task of the test suite
StartTime == 1000000     \* block.timestamp of the block the calls run in

\* accounts: the signers the test suite uses, and address(0)
ZeroAddress == "0x0"
deployer == "owner"      \* msg.sender of the constructor
Callers == {"owner", "addr1", "addr2"}
Addresses == {ZeroAddress} \cup Callers
TaskIds == 0..(MaxTasks - 1)
NoRet == 0 - 1           \* `ret` of a call that returns nothing

\* revert reasons
ErrPaused == "Contract is paused"
ErrNotAdmin == "Ownable: caller is not the owner"
ErrPriority == "Invalid priority level"
ErrLimit == "Maximum number of tasks reached"
ErrEdit == "Only the task owner can edit this task"
ErrModify == "Only the task owner can modify this task"
ErrDelete == "Only the task owner can delete this task"
Ok == "ok"

VARIABLES
    _taskIdCounter,      \* uint256: next id to assign
    _tasks,              \* mapping(uint256 => Task)
    _userTasks,          \* mapping(address => uint256[])
    _paused,             \* bool
    _maxTasksPerUser,    \* uint256
    _owner,              \* Ownable: the administrator
    now,                 \* block.timestamp of the current block
    added,               \* log of TaskAdded events: <<[taskId, owner], ...>>
    removed,             \* ids whose record was deleted after it was created
    last,                \* receipt of the most recent transaction
    tasks,               \* TaskList: the tasks state the list is rendered from
    isLoading,           \* TaskList: the isLoading state
    calls                \* frontend handler invocations that have not returned

vars == <<_taskIdCounter, _tasks, _userTasks, _paused, _maxTasksPerUser,
          _owner, now, added, removed, last, tasks, isLoading, calls>>

storage == <<_taskIdCounter, _tasks, _userTasks, _paused, _maxTasksPerUser, _owner>>

\* the state of the page
frontend == <<tasks, isLoading, calls>>

\* The default value of a Task slot: what a never written or deleted
\* mapping entry reads as.
ZeroTask ==
    [id |-> 0, title |-> "", description |-> "", completed |-> FALSE,
     owner |-> ZeroAddress, priority |-> Low, dueDate |-> 0, createdAt |-> 0]

\* The receipt of a transaction: the function called, "ok" or the revert
\* reason, the value returned and the events logged.
Receipt(op, status, ret, events) ==
    [op |-> op, status |-> status, ret |-> ret, events |-> events]

\* A reverted transaction: storage and logs are rolled back.
Revert(op, reason) ==
    /\ last' = Receipt(op, reason, NoRet, <<>>)
    /\ UNCHANGED <<storage, now, added, removed>>

\* A handler invocation that has not returned. pc is the await it stands
\* at: "tx" (transaction sent, tx.wait() pending), "mined" (receipt there,
\* the handler not yet resumed), "read" (the fetchAllTasks call sent),
\* "resp" (the node has answered, the handler not yet resumed).
Call(kind, id, title, description) ==
    [kind |-> kind, id |-> id, title |-> title, description |-> description,
     pc |-> "tx", ok |-> FALSE, result |-> <<>>]

\* TaskList's mount effect: the wallet is connected and fetchTasks awaits
\* its read.
initializeWallet == [Call("mount", "", "", "") EXCEPT !.pc = "read"]

\* The contract has been deployed and the page opened: TaskList has mounted
\* with its initial state and its first fetchTasks is in flight.
Init ==
    /\ _taskIdCounter = 0
    /\ _tasks = [id \in TaskIds |-> ZeroTask]
    /\ _userTasks = [a \in Addresses |-> <<>>]
    /\ _paused = FALSE
    /\ _maxTasksPerUser = DefaultMaxTasks
    /\ _owner = deployer
    /\ now = StartTime
    /\ added = <<>>
    /\ removed = {}
    /\ last = Receipt("constructor", Ok, NoRet, <<>>)
    /\ tasks = <<>>
    /\ isLoading = TRUE
    /\ calls = {initializeWallet}

\* -------------------------------------------------------------- modifiers
\* the modifier left without its require
whenNotPausedOff == TRUE

whenNotPaused == ~_paused

\* onlyOwner that lets every caller through
onlyOwnerAnyone(sender) == TRUE

onlyOwner(sender) == _owner = sender

\* ------------------------------------------------------ admin operations
setPaused(sender, paused) ==
    IF ~onlyOwner(sender) THEN Revert("setPaused", ErrNotAdmin)
    ELSE /\ _paused' = paused
         /\ last' = Receipt("setPaused", Ok, NoRet,
                            IF _paused # paused
                            THEN <<[name |-> "ContractPaused", paused |-> paused]>>
                            ELSE <<>>)
         /\ UNCHANGED <<_taskIdCounter, _tasks, _userTasks, _maxTasksPerUser,
                        _owner, now, added, removed>>

\* setMaxTasksPerUser that only ever raises the limit
setMaxTasksPerUserRaiseOnly(sender, maxTasks) ==
    IF ~onlyOwner(sender) THEN Revert("setMaxTasksPerUser", ErrNotAdmin)
    ELSE /\ _maxTasksPerUser' = IF maxTasks > _maxTasksPerUser
                                THEN maxTasks ELSE _maxTasksPerUser
         /\ last' = Receipt("setMaxTasksPerUser", Ok, NoRet,
                            IF maxTasks > _maxTasksPerUser
                            THEN <<[name |-> "MaxTasksPerUserChanged", maxTasks |-> maxTasks]>>
                            ELSE <<>>)
         /\ UNCHANGED <<_taskIdCounter, _tasks, _userTasks, _paused,
                        _owner, now, added, removed>>

setMaxTasksPerUser(sender, maxTasks) ==
    IF ~onlyOwner(sender) THEN Revert("setMaxTasksPerUser", ErrNotAdmin)
    ELSE /\ _maxTasksPerUser' = maxTasks
         /\ last' = Receipt("setMaxTasksPerUser", Ok, NoRet,
                            IF _maxTasksPerUser # maxTasks
                            THEN <<[name |-> "MaxTasksPerUserChanged", maxTasks |-> maxTasks]>>
                            ELSE <<>>)
         /\ UNCHANGED <<_taskIdCounter, _tasks, _userTasks, _paused,
                        _owner, now, added, removed>>

\* ------------------------------------------------------------- addTask
NewTask(taskId, title, description, sender, priority, dueDate) ==
    [id |-> taskId, title |-> title, description |-> description,
     completed |-> FALSE, owner |-> sender, priority |-> priority,
     dueDate |-> dueDate, createdAt |-> now]

\* the body of addTask with the limit test off by one (<= in place of <)
AddTaskBodyOffByOne(op, sender, title, description, priority, dueDate) ==
    IF ~(priority <= High) THEN Revert(op, ErrPriority)
    ELSE IF ~(Len(_userTasks[sender]) <= _maxTasksPerUser)
    THEN Revert(op, ErrLimit)
    ELSE LET taskId == _taskIdCounter IN
         /\ _taskIdCounter < MaxTasks
         /\ _taskIdCounter' = _taskIdCounter + 1
         /\ _tasks' = [_tasks EXCEPT ![taskId] =
                          NewTask(taskId, title, description, sender, priority, dueDate)]
         /\ _userTasks' = [_userTasks EXCEPT ![sender] = Append(@, taskId)]
         /\ added' = Append(added, [taskId |-> taskId, owner |-> sender])
         /\ last' = Receipt(op, Ok, taskId,
                            <<[name |-> "TaskAdded", taskId |-> taskId, owner |-> sender,
                               title |-> title, priority |-> priority,
                               dueDate |-> dueDate]>>)
         /\ UNCHANGED <<_paused, _maxTasksPerUser, _owner, now, removed>>

\* body of addTask(title, description, priority, dueDate), after whenNotPaused
AddTaskBody(op, sender, title, description, priority, dueDate) ==
    IF ~(priority <= High) THEN Revert(op, ErrPriority)
    ELSE IF ~(Len(_userTasks[sender]) < _maxTasksPerUser)
    THEN Revert(op, ErrLimit)
    ELSE LET taskId == _taskIdCounter IN
         /\ _taskIdCounter < MaxTasks
         /\ _taskIdCounter' = _taskIdCounter + 1
         /\ _tasks' = [_tasks EXCEPT ![taskId] =
                          NewTask(taskId, title, description, sender, priority, dueDate)]
         /\ _userTasks' = [_userTasks EXCEPT ![sender] = Append(@, taskId)]
         /\ added' = Append(added, [taskId |-> taskId, owner |-> sender])
         /\ last' = Receipt(op, Ok, taskId,
                            <<[name |-> "TaskAdded", taskId |-> taskId, owner |-> sender,
                               title |-> title, priority |-> priority,
                               dueDate |-> dueDate]>>)
         /\ UNCHANGED <<_paused, _maxTasksPerUser, _owner, now, removed>>

\* addTask(title, description) with Low as the default priority
addTask2Low(sender, title, description) ==
    IF ~whenNotPaused THEN Revert("addTask2", ErrPaused)
    ELSE AddTaskBody("addTask2", sender, title, description, Low, 0)

addTask(sender, title, description, priority, dueDate) ==
    IF ~whenNotPaused THEN Revert("addTask", ErrPaused)
    ELSE AddTaskBody("addTask", sender, title, description, priority, dueDate)

\* addTask(title, description): its own whenNotPaused, then the call of the
\* four-argument form, which runs the modifier again.
addTask2(sender, title, description) ==
    IF ~whenNotPaused THEN Revert("addTask2", ErrPaused)
    ELSE IF ~whenNotPaused THEN Revert("addTask2", ErrPaused)
    ELSE AddTaskBody("addTask2", sender, title, description, Medium, 0)

\* ------------------------------------------------------------- editTask
\* editTask without the require on the priority
editTaskAnyPriority(sender, taskId, newTitle, newDescription, priority, dueDate) ==
    IF ~whenNotPaused THEN Revert("editTask", ErrPaused)
    ELSE IF ~(_tasks[taskId].owner = sender)
    THEN Revert("editTask", ErrEdit)
    ELSE /\ _tasks' = [_tasks EXCEPT ![taskId].title = newTitle,
                                     ![taskId].description = newDescription,
                                     ![taskId].priority = priority,
                                     ![taskId].dueDate = dueDate]
         /\ last' = Receipt("editTask", Ok, NoRet,
                            <<[name |-> "TaskUpdated", taskId |-> taskId,
                               newTitle |-> newTitle, newDescription |-> newDescription,
                               priority |-> priority, dueDate |-> dueDate]>>)
         /\ UNCHANGED <<_taskIdCounter, _userTasks, _paused, _maxTasksPerUser,
                        _owner, now, added, removed>>

\* editTask that stores a rebuilt struct, leaving createdAt and completed at
\* their default values
editTaskFreshRecord(sender, taskId, newTitle, newDescription, priority, dueDate) ==
    IF ~whenNotPaused THEN Revert("editTask", ErrPaused)
    ELSE IF ~(_tasks[taskId].owner = sender)
    THEN Revert("editTask", ErrEdit)
    ELSE IF ~(priority <= High) THEN Revert("editTask", ErrPriority)
    ELSE /\ _tasks' = [_tasks EXCEPT ![taskId] =
                          [id |-> taskId, title |-> newTitle,
                           description |-> newDescription, completed |-> FALSE,
                           owner |-> sender, priority |-> priority,
                           dueDate |-> dueDate, createdAt |-> 0]]
         /\ last' = Receipt("editTask", Ok, NoRet,
                            <<[name |-> "TaskUpdated", taskId |-> taskId,
                               newTitle |-> newTitle, newDescription |-> newDescription,
                               priority |-> priority, dueDate |-> dueDate]>>)
         /\ UNCHANGED <<_taskIdCounter, _userTasks, _paused, _maxTasksPerUser,
                        _owner, now, added, removed>>

\* the short form without the require on the task owner
editTask3NoAuth(sender, taskId, newTitle, newDescription) ==
    IF ~whenNotPaused THEN Revert("editTask3", ErrPaused)
    ELSE /\ _tasks' = [_tasks EXCEPT ![taskId].title = newTitle,
                                     ![taskId].description = newDescription]
         /\ last' = Receipt("editTask3", Ok, NoRet,
                            <<[name |-> "TaskUpdated", taskId |-> taskId,
                               newTitle |-> newTitle, newDescription |-> newDescription,
                               priority |-> _tasks[taskId].priority,
                               dueDate |-> _tasks[taskId].dueDate]>>)
         /\ UNCHANGED <<_taskIdCounter, _userTasks, _paused, _maxTasksPerUser,
                        _owner, now, added, removed>>

\* the short form resetting priority and due date to the defaults of addTask
editTask3Defaults(sender, taskId, newTitle, newDescription) ==
    IF ~whenNotPaused THEN Revert("editTask3", ErrPaused)
    ELSE IF ~(_tasks[taskId].owner = sender)
    THEN Revert("editTask3", ErrEdit)
    ELSE /\ _tasks' = [_tasks EXCEPT ![taskId].title = newTitle,
                                     ![taskId].description = newDescription,
                                     ![taskId].priority = Medium,
                                     ![taskId].dueDate = 0]
         /\ last' = Receipt("editTask3", Ok, NoRet,
                            <<[name |-> "TaskUpdated", taskId |-> taskId,
                               newTitle |-> newTitle, newDescription |-> newDescription,
                               priority |-> Medium, dueDate |-> 0]>>)
         /\ UNCHANGED <<_taskIdCounter, _userTasks, _paused, _maxTasksPerUser,
                        _owner, now, added, removed>>

editTask(sender, taskId, newTitle, newDescription, priority, dueDate) ==
    IF ~whenNotPaused THEN Revert("editTask", ErrPaused)
    ELSE IF ~(_tasks[taskId].owner = sender)
    THEN Revert("editTask", ErrEdit)
    ELSE IF ~(priority <= High) THEN Revert("editTask", ErrPriority)
    ELSE /\ _tasks' = [_tasks EXCEPT ![taskId].title = newTitle,
                                     ![taskId].description = newDescription,
                                     ![taskId].priority = priority,
                                     ![taskId].dueDate = dueDate]
         /\ last' = Receipt("editTask", Ok, NoRet,
                            <<[name |-> "TaskUpdated", taskId |-> taskId,
                               newTitle |-> newTitle, newDescription |-> newDescription,
                               priority |-> priority, dueDate |-> dueDate]>>)
         /\ UNCHANGED <<_taskIdCounter, _userTasks, _paused, _maxTasksPerUser,
                        _owner, now, added, removed>>

\* editTask(taskId, title, description) without the whenNotPaused modifier
editTask3Ungated(sender, taskId, newTitle, newDescription) ==
    IF ~(_tasks[taskId].owner = sender)
    THEN Revert("editTask3", ErrEdit)
    ELSE /\ _tasks' = [_tasks EXCEPT ![taskId].title = newTitle,
                                     ![taskId].description = newDescription]
         /\ last' = Receipt("editTask3", Ok, NoRet,
                            <<[name |-> "TaskUpdated", taskId |-> taskId,
                               newTitle |-> newTitle, newDescription |-> newDescription,
                               priority |-> _tasks[taskId].priority,
                               dueDate |-> _tasks[taskId].dueDate]>>)
         /\ UNCHANGED <<_taskIdCounter, _userTasks, _paused, _maxTasksPerUser,
                        _owner, now, added, removed>>

editTask3(sender, taskId, newTitle, newDescription) ==
    IF ~whenNotPaused THEN Revert("editTask3", ErrPaused)
    ELSE IF ~(_tasks[taskId].owner = sender)
    THEN Revert("editTask3", ErrEdit)
    ELSE /\ _tasks' = [_tasks EXCEPT ![taskId].title = newTitle,
                                     ![taskId].description = newDescription]
         /\ last' = Receipt("editTask3", Ok, NoRet,
                            <<[name |-> "TaskUpdated", taskId |-> taskId,
                               newTitle |-> newTitle, newDescription |-> newDescription,
                               priority |-> _tasks[taskId].priority,
                               dueDate |-> _tasks[taskId].dueDate]>>)
         /\ UNCHANGED <<_taskIdCounter, _userTasks, _paused, _maxTasksPerUser,
                        _owner, now, added, removed>>

\* ---------------------------------------------------- setTaskCompletion
\* the body of setTaskCompletion without the require on the task owner
SetCompletionBodyNoAuth(op, sender, taskId, status) ==
    /\ _tasks' = [_tasks EXCEPT ![taskId].completed = status]
    /\ last' = Receipt(op, Ok, NoRet,
                       IF _tasks[taskId].completed # status
                       THEN <<[name |-> "TaskCompleted", taskId |-> taskId,
                               completed |-> status]>>
                       ELSE <<>>)
    /\ UNCHANGED <<_taskIdCounter, _userTasks, _paused, _maxTasksPerUser,
                   _owner, now, added, removed>>

\* the body of setTaskCompletion emitting TaskCompleted on every call
SetCompletionBodyAlwaysEmit(op, sender, taskId, status) ==
    IF ~(_tasks[taskId].owner = sender) THEN Revert(op, ErrModify)
    ELSE /\ _tasks' = [_tasks EXCEPT ![taskId].completed = status]
         /\ last' = Receipt(op, Ok, NoRet,
                            <<[name |-> "TaskCompleted", taskId |-> taskId,
                               completed |-> status]>>)
         /\ UNCHANGED <<_taskIdCounter, _userTasks, _paused, _maxTasksPerUser,
                        _owner, now, added, removed>>

\* body of setTaskCompletion(taskId, status), after whenNotPaused
SetCompletionBody(op, sender, taskId, status) ==
    IF ~(_tasks[taskId].owner = sender) THEN Revert(op, ErrModify)
    ELSE /\ _tasks' = [_tasks EXCEPT ![taskId].completed = status]
         /\ last' = Receipt(op, Ok, NoRet,
                            IF _tasks[taskId].completed # status
                            THEN <<[name |-> "TaskCompleted", taskId |-> taskId,
                                    completed |-> status]>>
                            ELSE <<>>)
         /\ UNCHANGED <<_taskIdCounter, _userTasks, _paused, _maxTasksPerUser,
                        _owner, now, added, removed>>

setTaskCompletion(sender, taskId, status) ==
    IF ~whenNotPaused THEN Revert("setTaskCompletion", ErrPaused)
    ELSE SetCompletionBody("setTaskCompletion", sender, taskId, status)

\* completeTask / uncompleteTask: their own whenNotPaused, then the call of
\* setTaskCompletion, which runs the modifier again.
completeTask(sender, taskId) ==
    IF ~whenNotPaused THEN Revert("completeTask", ErrPaused)
    ELSE IF ~whenNotPaused THEN Revert("completeTask", ErrPaused)
    ELSE SetCompletionBody("completeTask", sender, taskId, TRUE)

uncompleteTask(sender, taskId) ==
    IF ~whenNotPaused THEN Revert("uncompleteTask", ErrPaused)
    ELSE IF ~whenNotPaused THEN Revert("uncompleteTask", ErrPaused)
    ELSE SetCompletionBody("uncompleteTask", sender, taskId, FALSE)

\* ------------------------------------------------------------ deleteTask
\* SwapAndPop without the pop(): the slot is overwritten, the array keeps its length.
SwapNoPop(userTaskIds, taskId) ==
    IF \E i \in 1..Len(userTaskIds) : userTaskIds[i] = taskId
    THEN LET i == CHOOSE k \in 1..Len(userTaskIds) :
                      /\ userTaskIds[k] = taskId
                      /\ \A j \in 1..(k - 1) : userTaskIds[j] # taskId
         IN  [userTaskIds EXCEPT ![i] = userTaskIds[Len(userTaskIds)]]
    ELSE userTaskIds

\* the removal loop without the swap: the last element is popped whenever
\* taskId is found
PopWithoutSwap(userTaskIds, taskId) ==
    IF \E i \in 1..Len(userTaskIds) : userTaskIds[i] = taskId
    THEN SubSeq(userTaskIds, 1, Len(userTaskIds) - 1)
    ELSE userTaskIds

\* The removal loop: the first position holding taskId takes the last
\* element and the array is popped; an array without taskId is left alone.
SwapAndPop(userTaskIds, taskId) ==
    IF \E i \in 1..Len(userTaskIds) : userTaskIds[i] = taskId
    THEN LET i == CHOOSE k \in 1..Len(userTaskIds) :
                      /\ userTaskIds[k] = taskId
                      /\ \A j \in 1..(k - 1) : userTaskIds[j] # taskId
         IN  SubSeq([userTaskIds EXCEPT ![i] = userTaskIds[Len(userTaskIds)]],
                    1, Len(userTaskIds) - 1)
    ELSE userTaskIds

\* ids recorded as removed: those that had been handed out by addTask
Issued == {added[i].taskId : i \in 1..Len(added)}

\* deleteTask without the owner check.
deleteTaskNoAuth(sender, taskId) ==
    IF ~whenNotPaused THEN Revert("deleteTask", ErrPaused)
    ELSE /\ _userTasks' = [_userTasks EXCEPT ![sender] = SwapAndPop(@, taskId)]
         /\ _tasks' = [_tasks EXCEPT ![taskId] = ZeroTask]
         /\ removed' = removed \cup ({taskId} \cap Issued)
         /\ last' = Receipt("deleteTask", Ok, NoRet,
                            <<[name |-> "TaskDeleted", taskId |-> taskId]>>)
         /\ UNCHANGED <<_taskIdCounter, _paused, _maxTasksPerUser, _owner, now, added>>

\* deleteTask without the whenNotPaused modifier
deleteTaskUngated(sender, taskId) ==
    IF ~(_tasks[taskId].owner = sender)
    THEN Revert("deleteTask", ErrDelete)
    ELSE /\ _userTasks' = [_userTasks EXCEPT ![sender] = SwapAndPop(@, taskId)]
         /\ _tasks' = [_tasks EXCEPT ![taskId] = ZeroTask]
         /\ removed' = removed \cup ({taskId} \cap Issued)
         /\ last' = Receipt("deleteTask", Ok, NoRet,
                            <<[name |-> "TaskDeleted", taskId |-> taskId]>>)
         /\ UNCHANGED <<_taskIdCounter, _paused, _maxTasksPerUser, _owner, now, added>>

\* deleteTask that hands the freed identifier back to the counter.
deleteTaskRecycle(sender, taskId) ==
    IF ~whenNotPaused THEN Revert("deleteTask", ErrPaused)
    ELSE IF ~(_tasks[taskId].owner = sender)
    THEN Revert("deleteTask", ErrDelete)
    ELSE /\ _userTasks' = [_userTasks EXCEPT ![sender] = SwapAndPop(@, taskId)]
         /\ _tasks' = [_tasks EXCEPT ![taskId] = ZeroTask]
         /\ _taskIdCounter' = taskId
         /\ removed' = removed \cup ({taskId} \cap Issued)
         /\ last' = Receipt("deleteTask", Ok, NoRet,
                            <<[name |-> "TaskDeleted", taskId |-> taskId]>>)
         /\ UNCHANGED <<_paused, _maxTasksPerUser, _owner, now, added>>

\* deleteTask that leaves the record in the mapping.
deleteTaskKeepRecord(sender, taskId) ==
    IF ~whenNotPaused THEN Revert("deleteTask", ErrPaused)
    ELSE IF ~(_tasks[taskId].owner = sender)
    THEN Revert("deleteTask", ErrDelete)
    ELSE /\ _userTasks' = [_userTasks EXCEPT ![sender] = SwapAndPop(@, taskId)]
         /\ removed' = removed \cup ({taskId} \cap Issued)
         /\ last' = Receipt("deleteTask", Ok, NoRet,
                            <<[name |-> "TaskDeleted", taskId |-> taskId]>>)
         /\ UNCHANGED <<_taskIdCounter, _tasks, _paused, _maxTasksPerUser, _owner, now, added>>

deleteTask(sender, taskId) ==
    IF ~whenNotPaused THEN Revert("deleteTask", ErrPaused)
    ELSE IF ~(_tasks[taskId].owner = sender)
    THEN Revert("deleteTask", ErrDelete)
    ELSE /\ _userTasks' = [_userTasks EXCEPT ![sender] = SwapAndPop(@, taskId)]
         /\ _tasks' = [_tasks EXCEPT ![taskId] = ZeroTask]
         /\ removed' = removed \cup ({taskId} \cap Issued)
         /\ last' = Receipt("deleteTask", Ok, NoRet,
                            <<[name |-> "TaskDeleted", taskId |-> taskId]>>)
         /\ UNCHANGED <<_taskIdCounter, _paused, _maxTasksPerUser, _owner, now, added>>

\* adminDeleteTask that scans the caller's array instead of the task owner's.
adminDeleteTaskOwnIndex(sender, taskId) ==
    IF ~onlyOwner(sender) THEN Revert("adminDeleteTask", ErrNotAdmin)
    ELSE /\ _userTasks' = [_userTasks EXCEPT ![sender] = SwapAndPop(@, taskId)]
         /\ _tasks' = [_tasks EXCEPT ![taskId] = ZeroTask]
         /\ removed' = removed \cup ({taskId} \cap Issued)
         /\ last' = Receipt("adminDeleteTask", Ok, NoRet,
                            <<[name |-> "TaskDeleted", taskId |-> taskId]>>)
         /\ UNCHANGED <<_taskIdCounter, _paused, _maxTasksPerUser, _owner, now, added>>

\* adminDeleteTask that rejects an id without a record.
adminDeleteTaskChecked(sender, taskId) ==
    IF ~onlyOwner(sender) THEN Revert("adminDeleteTask", ErrNotAdmin)
    ELSE IF _tasks[taskId].owner = ZeroAddress
    THEN Revert("adminDeleteTask", ErrDelete)
    ELSE LET taskOwner == _tasks[taskId].owner IN
         /\ _userTasks' = [_userTasks EXCEPT ![taskOwner] = SwapAndPop(@, taskId)]
         /\ _tasks' = [_tasks EXCEPT ![taskId] = ZeroTask]
         /\ removed' = removed \cup ({taskId} \cap Issued)
         /\ last' = Receipt("adminDeleteTask", Ok, NoRet,
                            <<[name |-> "TaskDeleted", taskId |-> taskId]>>)
         /\ UNCHANGED <<_taskIdCounter, _paused, _maxTasksPerUser, _owner, now, added>>

\* adminDeleteTask without the `delete _tasks[taskId]`.
adminDeleteTaskKeepRecord(sender, taskId) ==
    IF ~onlyOwner(sender) THEN Revert("adminDeleteTask", ErrNotAdmin)
    ELSE LET taskOwner == _tasks[taskId].owner IN
         /\ _userTasks' = [_userTasks EXCEPT ![taskOwner] = SwapAndPop(@, taskId)]
         /\ removed' = removed \cup ({taskId} \cap Issued)
         /\ last' = Receipt("adminDeleteTask", Ok, NoRet,
                            <<[name |-> "TaskDeleted", taskId |-> taskId]>>)
         /\ UNCHANGED <<_taskIdCounter, _tasks, _paused, _maxTasksPerUser, _owner,
                        now, added>>

\* adminDeleteTask that takes the removed task off the global counter.
adminDeleteTaskDecrement(sender, taskId) ==
    IF ~onlyOwner(sender) THEN Revert("adminDeleteTask", ErrNotAdmin)
    ELSE LET taskOwner == _tasks[taskId].owner IN
         /\ _userTasks' = [_userTasks EXCEPT ![taskOwner] = SwapAndPop(@, taskId)]
         /\ _tasks' = [_tasks EXCEPT ![taskId] = ZeroTask]
         /\ _taskIdCounter' = IF _taskIdCounter > 0 THEN _taskIdCounter - 1 ELSE 0
         /\ removed' = removed \cup ({taskId} \cap Issued)
         /\ last' = Receipt("adminDeleteTask", Ok, NoRet,
                            <<[name |-> "TaskDeleted", taskId |-> taskId]>>)
         /\ UNCHANGED <<_paused, _maxTasksPerUser, _owner, now, added>>

\* adminDeleteTask carrying the whenNotPaused modifier of deleteTask.
adminDeleteTaskGated(sender, taskId) ==
    IF ~whenNotPaused THEN Revert("adminDeleteTask", ErrPaused)
    ELSE IF ~onlyOwner(sender) THEN Revert("adminDeleteTask", ErrNotAdmin)
    ELSE LET taskOwner == _tasks[taskId].owner IN
         /\ _userTasks' = [_userTasks EXCEPT ![taskOwner] = SwapAndPop(@, taskId)]
         /\ _tasks' = [_tasks EXCEPT ![taskId] = ZeroTask]
         /\ removed' = removed \cup ({taskId} \cap Issued)
         /\ last' = Receipt("adminDeleteTask", Ok, NoRet,
                            <<[name |-> "TaskDeleted", taskId |-> taskId]>>)
         /\ UNCHANGED <<_taskIdCounter, _paused, _maxTasksPerUser, _owner, now, added>>

adminDeleteTask(sender, taskId) ==
    IF ~onlyOwner(sender) THEN Revert("adminDeleteTask", ErrNotAdmin)
    ELSE LET taskOwner == _tasks[taskId].owner IN
         /\ _userTasks' = [_userTasks EXCEPT ![taskOwner] = SwapAndPop(@, taskId)]
         /\ _tasks' = [_tasks EXCEPT ![taskId] = ZeroTask]
         /\ removed' = removed \cup ({taskId} \cap Issued)
         /\ last' = Receipt("adminDeleteTask", Ok, NoRet,
                            <<[name |-> "TaskDeleted", taskId |-> taskId]>>)
         /\ UNCHANGED <<_taskIdCounter, _paused, _maxTasksPerUser, _owner, now, added>>

\* ----------------------------------------------------------------- views
\* A view call returns [status, ret]: "ok" and the value, or the revert reason.
Return(value) == [status |-> Ok, ret |-> value]
Fail(reason) == [status |-> reason, ret |-> NoRet]

getMaxTasksPerUser == Return(_maxTasksPerUser)

isPaused == Return(_paused)

getTask(taskId) == Return(_tasks[taskId])

\* fetchAllTasks filling the result from the back
fetchAllTasksReversed(sender) ==
    LET userTaskIds == _userTasks[sender]
        n == Len(userTaskIds)
    IN  Return([i \in 1..n |-> _tasks[userTaskIds[n + 1 - i]]])

fetchAllTasks(sender) ==
    LET userTaskIds == _userTasks[sender]
    IN  Return([i \in 1..Len(userTaskIds) |-> _tasks[userTaskIds[i]]])

\* The count-then-fill loops of the filtered queries: the records of the
\* ids, in index order, that pass the test.
FilterTasks(userTaskIds, Keep(_)) ==
    SelectSeq([i \in 1..Len(userTaskIds) |-> _tasks[userTaskIds[i]]], Keep)

fetchTasksByStatus(sender, completed) ==
    LET Keep(task) == task.completed = completed
    IN  Return(FilterTasks(_userTasks[sender], Keep))

\* fetchTasksByPriority keeping every task of at least the given priority
fetchTasksByPriorityAtLeast(sender, priority) ==
    IF ~(priority <= High) THEN Fail(ErrPriority)
    ELSE LET Keep(task) == task.priority >= priority
         IN  Return(FilterTasks(_userTasks[sender], Keep))

fetchTasksByPriority(sender, priority) ==
    IF ~(priority <= High) THEN Fail(ErrPriority)
    ELSE LET Keep(task) == task.priority = priority
         IN  Return(FilterTasks(_userTasks[sender], Keep))

\* fetchTasksDueSoon without the !task.completed test
fetchTasksDueSoonCompletedToo(sender) ==
    LET tomorrow == now + OneDay
        Keep(task) == task.dueDate > 0 /\ task.dueDate <= tomorrow
    IN  Return(FilterTasks(_userTasks[sender], Keep))

fetchTasksDueSoon(sender) ==
    LET tomorrow == now + OneDay
        Keep(task) == task.dueDate > 0 /\ task.dueDate <= tomorrow /\ ~task.completed
    IN  Return(FilterTasks(_userTasks[sender], Keep))

getTaskCount(sender) == Return(Len(_userTasks[sender]))

getTotalTaskCount(sender) ==
    IF ~onlyOwner(sender) THEN Fail(ErrNotAdmin) ELSE Return(_taskIdCounter)

\* ------------------------------------------------------------------ Spec
\* Inputs of the lifecycle specification: one title and description, a valid
\* and an invalid priority, no due date, the limits 1 and 100.
AddText == <<"T1", "D1">>
EditText == <<"T1", "D1">>
SpecPriorities == {Medium, High + 1}
LimitInputs == {1, DefaultMaxTasks}

Next ==
    \/ \E sender \in Callers, paused \in BOOLEAN : setPaused(sender, paused) /\ UNCHANGED frontend
    \/ \E sender \in Callers, maxTasks \in LimitInputs : setMaxTasksPerUser(sender, maxTasks) /\ UNCHANGED frontend
    \/ \E sender \in Callers, priority \in SpecPriorities :
          addTask(sender, AddText[1], AddText[2], priority, 0) /\ UNCHANGED frontend
    \/ \E sender \in Callers : addTask2(sender, AddText[1], AddText[2]) /\ UNCHANGED frontend
    \/ \E sender \in Callers, taskId \in TaskIds, priority \in SpecPriorities :
          editTask(sender, taskId, EditText[1], EditText[2], priority, 0) /\ UNCHANGED frontend
    \/ \E sender \in Callers, taskId \in TaskIds :
          editTask3(sender, taskId, EditText[1], EditText[2]) /\ UNCHANGED frontend
    \/ \E sender \in Callers, taskId \in TaskIds, status \in BOOLEAN :
          setTaskCompletion(sender, taskId, status) /\ UNCHANGED frontend
    \/ \E sender \in Callers, taskId \in TaskIds : completeTask(sender, taskId) /\ UNCHANGED frontend
    \/ \E sender \in Callers, taskId \in TaskIds : uncompleteTask(sender, taskId) /\ UNCHANGED frontend
    \/ \E sender \in Callers, taskId \in TaskIds : deleteTask(sender, taskId) /\ UNCHANGED frontend
    \/ \E sender \in Callers, taskId \in TaskIds : adminDeleteTask(sender, taskId) /\ UNCHANGED frontend

Spec == Init /\ [][Next]_vars

\* --------------------------------------------------------------- SpecDue
\* The due-date specification: two users create tasks without a due date,
\* due in an hour and due in two days, complete and delete them,
\* while blocks are mined and block.timestamp advances a day at a time.
DueCallers == {"addr1", "addr2"}
DueInputs == {0, now + OneHour, now + 2 * OneDay}

\* a later block: block.timestamp has advanced by a day and no transaction
\* of this contract is the latest one any more
Tick ==
    /\ now < StartTime + MaxTicks * OneDay
    /\ now' = now + OneDay
    /\ last' = Receipt("block", Ok, NoRet, <<>>)
    /\ UNCHANGED <<storage, added, removed>>

NextDue ==
    \/ Tick /\ UNCHANGED frontend
    \/ \E sender \in DueCallers, dueDate \in DueInputs :
          addTask(sender, AddText[1], AddText[2], High, dueDate) /\ UNCHANGED frontend
    \/ \E sender \in DueCallers : addTask2(sender, AddText[1], AddText[2]) /\ UNCHANGED frontend
    \/ \E sender \in DueCallers, taskId \in TaskIds : completeTask(sender, taskId) /\ UNCHANGED frontend
    \/ \E sender \in DueCallers, taskId \in TaskIds : deleteTask(sender, taskId) /\ UNCHANGED frontend

SpecDue == Init /\ [][NextDue]_vars

\* -------------------------------------------------------------- SpecEdit
\* The record specification: two callers create tasks in both forms (High
\* and due in an hour, or the defaults), edit them in both forms, complete
\* and delete them.
EditCallers == {"owner", "addr1"}
EditedText == <<"T2", "D2">>
LaterDue == now + 2 * OneDay

NextEdit ==
    \/ \E sender \in EditCallers :
          addTask(sender, AddText[1], AddText[2], High, now + OneHour) /\ UNCHANGED frontend
    \/ \E sender \in EditCallers : addTask2(sender, AddText[1], AddText[2]) /\ UNCHANGED frontend
    \/ \E sender \in EditCallers, taskId \in TaskIds :
          editTask(sender, taskId, EditedText[1], EditedText[2], Low, LaterDue) /\ UNCHANGED frontend
    \/ \E sender \in EditCallers, taskId \in TaskIds :
          editTask3(sender, taskId, EditedText[1], EditedText[2]) /\ UNCHANGED frontend
    \/ \E sender \in EditCallers, taskId \in TaskIds : completeTask(sender, taskId) /\ UNCHANGED frontend
    \/ \E sender \in EditCallers, taskId \in TaskIds : deleteTask(sender, taskId) /\ UNCHANGED frontend

SpecEdit == Init /\ [][NextEdit]_vars

\* ---------------------------------------------------------------- SpecUI
\* The page: one connected account works on its tasks through the frontend.
\* A handler runs up to its next await in one step; the transaction it sent
\* is mined, and the read it issued is answered, in steps of their own.
user == "addr1"          \* the account MetaMask is connected with

\* id.toString() of fetchTasks and the Number(id) of the handlers
toString(id) == ToString(id)
Number(id) == CHOOSE n \in TaskIds : ToString(n) = id

\* TaskItem: a button's own spinner state, set around the awaited handler
isToggling(id) == \E c \in calls : c.kind = "toggle" /\ c.id = id
isDeleting(id) == \E c \in calls : c.kind = "delete" /\ c.id = id
\* page.tsx: isLoading of TaskManager, set around the awaited adapter call
pageIsLoading == \E c \in calls : c.kind \in {"add", "edit"}
Shown(id) == \E i \in 1..Len(tasks) : tasks[i].id = id

\* contract.js getAllTasks: fetchAllTasks as the signer, each record
\* brought to the adapter's shape (dates in milliseconds, null for none)
getAllTasks ==
    LET fetched == fetchAllTasks(user).ret
    IN  [i \in 1..Len(fetched) |->
            [id |-> fetched[i].id,
             title |-> fetched[i].title,
             description |-> fetched[i].description,
             completed |-> fetched[i].completed,
             owner |-> fetched[i].owner,
             priority |-> fetched[i].priority,
             dueDate |-> IF fetched[i].dueDate > 0
                         THEN <<"Date", fetched[i].dueDate * 1000>>
                         ELSE <<"null">>,
             createdAt |-> <<"Date", fetched[i].createdAt * 1000>>]]

\* fetchTasks: the list built from what getAllTasks returned
formattedTasks(blockchainTasks) ==
    [i \in 1..Len(blockchainTasks) |->
        [id |-> toString(blockchainTasks[i].id),
         title |-> blockchainTasks[i].title,
         description |-> blockchainTasks[i].description,
         completed |-> blockchainTasks[i].completed]]

\* The page is reloaded: TaskList mounts anew.
Mount ==
    /\ calls = {}
    /\ tasks' = <<>>
    /\ isLoading' = TRUE
    /\ calls' = {initializeWallet}
    /\ UNCHANGED <<storage, now, added, removed, last>>

\* page.tsx handleAddTask, up to the await: AddTask's form is submitted
handleAddTask(title, description) ==
    /\ ~pageIsLoading
    /\ Cardinality(calls) < MaxCalls
    /\ calls' = calls \cup {Call("add", "", title, description)}
    /\ UNCHANGED <<storage, now, added, removed, last, tasks, isLoading>>

\* page.tsx handleUpdateTask, up to the await: EditTaskModal is submitted
\* for a task of the list (its Edit button is disabled while isLoading)
handleUpdateTask(task) ==
    /\ ~isLoading /\ ~pageIsLoading
    /\ Shown(task.id)
    /\ Cardinality(calls) < MaxCalls
    /\ calls' = calls \cup {Call("edit", task.id, task.title, task.description)}
    /\ UNCHANGED <<storage, now, added, removed, last, tasks, isLoading>>

\* TaskItem.handleToggleComplete and TaskList.handleToggleComplete, up to
\* the await: the toggle button (disabled={isLoading || isToggling})
handleToggleComplete(id) ==
    /\ Shown(id)
    /\ ~(isLoading \/ isToggling(id))
    /\ Cardinality(calls) < MaxCalls
    /\ calls' = calls \cup {Call("toggle", id, "", "")}
    /\ UNCHANGED <<storage, now, added, removed, last, tasks, isLoading>>

\* TaskItem.handleDelete and TaskList.handleDelete, up to the await: the
\* delete button (disabled={isLoading || isDeleting})
handleDelete(id) ==
    /\ Shown(id)
    /\ ~(isLoading \/ isDeleting(id))
    /\ Cardinality(calls) < MaxCalls
    /\ calls' = calls \cup {Call("delete", id, "", "")}
    /\ UNCHANGED <<storage, now, added, removed, last, tasks, isLoading>>

\* The adapter function a handler awaits, as the transaction it sends:
\* addTask(title, description), editTask(taskId, newTitle, newDescription),
\* completeTask(taskId), deleteTask(taskId), signed by the connected account.
Transaction(c) ==
    CASE c.kind = "add" -> addTask2(user, c.title, c.description)
      [] c.kind = "edit" -> editTask3(user, Number(c.id), c.title, c.description)
      [] c.kind = "toggle" -> completeTask(user, Number(c.id))
      [] c.kind = "delete" -> deleteTask(user, Number(c.id))

\* tx.wait(): the transaction of a handler is mined, or reverts
Mined(c) ==
    /\ c.pc = "tx"
    /\ Transaction(c)
    /\ calls' = (calls \ {c}) \cup {[c EXCEPT !.pc = "mined", !.ok = (last'.status = Ok)]}
    /\ UNCHANGED <<tasks, isLoading>>

\* fetchTasks up to its await: setIsLoading(true), then getAllTasks()
fetchTasks(c) ==
    /\ isLoading' = TRUE
    /\ calls' = (calls \ {c}) \cup {[c EXCEPT !.pc = "read"]}

\* handleAddTask and handleUpdateTask after the await: a toast, and the
\* handler returns.
PageHandlerResumes(c) ==
    /\ c.pc = "mined" /\ c.kind \in {"add", "edit"}
    /\ calls' = calls \ {c}
    /\ UNCHANGED <<storage, now, added, removed, last, tasks, isLoading>>

\* handleToggleComplete after the await: the flag of the task is inverted
\* in the list, then fetchTasks; a rejected call goes to the catch.
ToggleResumes(c) ==
    /\ c.pc = "mined" /\ c.kind = "toggle"
    /\ IF c.ok
       THEN /\ tasks' = [i \in 1..Len(tasks) |->
                            IF tasks[i].id = c.id
                            THEN [tasks[i] EXCEPT !.completed = ~tasks[i].completed]
                            ELSE tasks[i]]
            /\ fetchTasks(c)
       ELSE /\ calls' = calls \ {c}
            /\ UNCHANGED <<tasks, isLoading>>
    /\ UNCHANGED <<storage, now, added, removed, last>>

\* handleDelete after the await: the task is filtered out of the list,
\* then fetchTasks; a rejected call goes to the catch.
DeleteResumes(c) ==
    /\ c.pc = "mined" /\ c.kind = "delete"
    /\ IF c.ok
       THEN /\ LET Others(task) == task.id # c.id
               IN  tasks' = SelectSeq(tasks, Others)
            /\ fetchTasks(c)
       ELSE /\ calls' = calls \ {c}
            /\ UNCHANGED <<tasks, isLoading>>
    /\ UNCHANGED <<storage, now, added, removed, last>>

\* getAllTasks inside fetchTasks: the node evaluates fetchAllTasks on the
\* state it has at that moment
Answered(c) ==
    /\ c.pc = "read"
    /\ calls' = (calls \ {c}) \cup {[c EXCEPT !.pc = "resp", !.result = getAllTasks]}
    /\ UNCHANGED <<storage, now, added, removed, last, tasks, isLoading>>

\* fetchTasks after its await: setTasks(formattedTasks), setIsLoading(false);
\* the handler that awaited it returns.
fetchTasksResumes(c) ==
    /\ c.pc = "resp"
    /\ tasks' = formattedTasks(c.result)
    /\ isLoading' = FALSE
    /\ calls' = calls \ {c}
    /\ UNCHANGED <<storage, now, added, removed, last>>

NextUI ==
    \/ Mount
    \/ handleAddTask(AddText[1], AddText[2])
    \/ \E i \in 1..Len(tasks) :
          handleUpdateTask([tasks[i] EXCEPT !.title = EditedText[1],
                                            !.description = EditedText[2]])
    \/ \E i \in 1..Len(tasks) : handleToggleComplete(tasks[i].id)
    \/ \E i \in 1..Len(tasks) : handleDelete(tasks[i].id)
    \/ \E c \in calls : Mined(c)
    \/ \E c \in calls : PageHandlerResumes(c)
    \/ \E c \in calls : ToggleResumes(c)
    \/ \E c \in calls : DeleteResumes(c)
    \/ \E c \in calls : Answered(c)
    \/ \E c \in calls : fetchTasksResumes(c)

SpecUI == Init /\ [][NextUI]_vars

\* -------------------------------------------------------------- SpecRace
\* The page used for writes that overlap: tasks are added on an idle page,
\* and a toggle or a delete is clicked only for a task that no handler
\* still in flight was called for.
NoCallFor(id) == ~pageIsLoading /\ \A c \in calls : c.id # id

NextRace ==
    \/ Mount
    \/ calls = {} /\ handleAddTask(AddText[1], AddText[2])
    \/ \E i \in 1..Len(tasks) : NoCallFor(tasks[i].id) /\ handleToggleComplete(tasks[i].id)
    \/ \E i \in 1..Len(tasks) : NoCallFor(tasks[i].id) /\ handleDelete(tasks[i].id)
    \/ \E c \in calls : Mined(c)
    \/ \E c \in calls : PageHandlerResumes(c)
    \/ \E c \in calls : ToggleResumes(c)
    \/ \E c \in calls : DeleteResumes(c)
    \/ \E c \in calls : Answered(c)
    \/ \E c \in calls : fetchTasksResumes(c)

SpecRace == Init /\ [][NextRace]_vars

\* =================================================================== claims
Exists(taskId) == _tasks[taskId].owner # ZeroAddress
Holds(o, taskId) == \E i \in 1..Len(_userTasks[o]) : _userTasks[o][i] = taskId
AddOps == {"addTask", "addTask2"}
EditOps == {"editTask", "editTask3"}
CompletionOps == {"setTaskCompletion", "completeTask", "uncompleteTask"}
contract == <<storage, now, added, removed>>

\* a step that was refused with the given reason and changed nothing
Refused(reason) == last'.status = reason /\ UNCHANGED contract

\* C1: every identifier in an owner's index (_userTasks[o]) resolves to an
\* existing task record whose owner field equals o.
C1_IndexResolvesToOwner ==
    \A o \in Addresses : \A i \in 1..Len(_userTasks[o]) :
        LET id == _userTasks[o][i]
        IN  id \in TaskIds /\ Exists(id) /\ _tasks[id].owner = o

\* an index that still holds a task right after the administrator removed
\* another task
C1_Witness ==
    /\ last.op = "adminDeleteTask" /\ last.status = Ok /\ removed # {}
    /\ \E o \in Callers : Len(_userTasks[o]) >= 1

\* the calls of the lifecycle specification, grouped by function
\* (the step is a call of the function when the receipt names it and the
\* function's action relates the two states)
Add4Call(sender, priority) ==
    last'.op = "addTask" /\ addTask(sender, AddText[1], AddText[2], priority, 0)
Add2Call(sender) ==
    last'.op = "addTask2" /\ addTask2(sender, AddText[1], AddText[2])
Edit5Call(sender, taskId, priority) ==
    last'.op = "editTask"
        /\ editTask(sender, taskId, EditText[1], EditText[2], priority, 0)
Edit3Call(sender, taskId) ==
    last'.op = "editTask3" /\ editTask3(sender, taskId, EditText[1], EditText[2])
EditCall(sender, taskId) ==
    \/ \E priority \in SpecPriorities : Edit5Call(sender, taskId, priority)
    \/ Edit3Call(sender, taskId)
SetCompletionCall(sender, taskId, status) ==
    last'.op = "setTaskCompletion" /\ setTaskCompletion(sender, taskId, status)
CompleteCall(sender, taskId) ==
    last'.op = "completeTask" /\ completeTask(sender, taskId)
UncompleteCall(sender, taskId) ==
    last'.op = "uncompleteTask" /\ uncompleteTask(sender, taskId)
CompletionCall(sender, taskId) ==
    \/ \E status \in BOOLEAN : SetCompletionCall(sender, taskId, status)
    \/ CompleteCall(sender, taskId)
    \/ UncompleteCall(sender, taskId)
DeleteCall(sender, taskId) ==
    last'.op = "deleteTask" /\ deleteTask(sender, taskId)
SetPausedCall(sender, paused) ==
    last'.op = "setPaused" /\ setPaused(sender, paused)
SetMaxCall(sender, maxTasks) ==
    last'.op = "setMaxTasksPerUser" /\ setMaxTasksPerUser(sender, maxTasks)
AdminDeleteCall(sender, taskId) ==
    last'.op = "adminDeleteTask" /\ adminDeleteTask(sender, taskId)
NotOwnerOf(sender, taskId) == Exists(taskId) /\ _tasks[taskId].owner # sender
OwnerOf(sender, taskId) == Exists(taskId) /\ _tasks[taskId].owner = sender

\* the step is a call of the function family on an existing task by a caller
\* who is not the task's owner
NonOwnerEdit ==
    \E sender \in Callers, taskId \in TaskIds :
        NotOwnerOf(sender, taskId) /\ EditCall(sender, taskId)
NonOwnerCompletion ==
    \E sender \in Callers, taskId \in TaskIds :
        NotOwnerOf(sender, taskId) /\ CompletionCall(sender, taskId)
NonOwnerDelete ==
    \E sender \in Callers, taskId \in TaskIds :
        NotOwnerOf(sender, taskId) /\ DeleteCall(sender, taskId)

\* C2 as stated: editTask, setTaskCompletion/completeTask/uncompleteTask and
\* deleteTask on an existing task by a caller who is not its owner are
\* rejected with the authorization error and change nothing.
C2_Original ==
    [][/\ (last'.op \in EditOps /\ NonOwnerEdit) => Refused(ErrEdit)
       /\ (last'.op \in CompletionOps /\ NonOwnerCompletion) => Refused(ErrModify)
       /\ (last'.op = "deleteTask" /\ NonOwnerDelete) => Refused(ErrDelete)]_vars

\* C2 amended: such a call is always rejected and changes nothing; the error
\* is the authorization error while the store is not paused and the paused
\* error while it is paused (the pause check runs first).
C2_NonOwnerRejected ==
    [][/\ (last'.op \in EditOps /\ NonOwnerEdit) =>
              Refused(IF _paused THEN ErrPaused ELSE ErrEdit)
       /\ (last'.op \in CompletionOps /\ NonOwnerCompletion) =>
              Refused(IF _paused THEN ErrPaused ELSE ErrModify)
       /\ (last'.op = "deleteTask" /\ NonOwnerDelete) =>
              Refused(IF _paused THEN ErrPaused ELSE ErrDelete)]_vars

\* every identifier is a stored task and the last deleteTask was refused for
\* want of ownership
C2_Witness ==
    /\ last.op = "deleteTask" /\ last.status = ErrDelete
    /\ \A id \in TaskIds : Exists(id)

\* C3: the identifiers returned by successful addTask calls are strictly
\* increasing over the whole history, deleted identifiers included.
C3_IdsStrictlyIncreasing ==
    /\ \A i, j \in 1..Len(added) : i < j => added[i].taskId < added[j].taskId
    /\ (last.op \in AddOps /\ last.status = Ok) =>
           /\ Len(added) >= 1
           /\ last.ret = added[Len(added)].taskId
           /\ \A i \in 1..(Len(added) - 1) : added[i].taskId < last.ret

\* an addTask that succeeded after an earlier identifier had been deleted
C3_Witness ==
    /\ last.op \in AddOps /\ last.status = Ok
    /\ removed # {} /\ Len(added) >= 2

\* C4: getTaskCount of c is the number of tasks c created that have not been
\* removed by deleteTask or adminDeleteTask.
CreatedAndLive(c) ==
    {i \in 1..Len(added) : added[i].owner = c /\ added[i].taskId \notin removed}

C4_CountIsLiveCreated ==
    \A c \in Callers :
        getTaskCount(c) = Return(Cardinality(CreatedAndLive(c)))

\* addr1 created two tasks, the administrator has just removed one of them
C4_Witness ==
    /\ last.op = "adminDeleteTask" /\ last.status = Ok
    /\ \E i \in 1..Len(added) : added[i].owner = "addr1" /\ added[i].taskId \in removed
    /\ getTaskCount("addr1").ret = 1

\* C5: a successful deleteTask removes the identifier from the index and the
\* record in one step (getTask then reads the zero-valued record), and in no
\* state is an identifier in an index without its record, or a record without
\* its identifier in an index.
C5_RecordIffIndexed ==
    \A id \in TaskIds : Exists(id) <=> (\E o \in Addresses : Holds(o, id))

C5_DeleteAtomic ==
    /\ []C5_RecordIffIndexed
    /\ [][(last'.op = "deleteTask" /\ last'.status = Ok) =>
            \A sender \in Callers, taskId \in TaskIds :
                DeleteCall(sender, taskId) =>
                    /\ \A o \in Addresses : ~Holds(o, taskId)'
                    /\ getTask(taskId)' = Return(ZeroTask)
                    /\ getTask(taskId)'.ret.owner = ZeroAddress
                    /\ getTask(taskId)'.ret.title = ""
                    /\ getTask(taskId)'.ret.completed = FALSE]_vars

\* a deleteTask that succeeded while other tasks are still stored
C5_Witness ==
    /\ last.op = "deleteTask" /\ last.status = Ok
    /\ \E id \in TaskIds : Exists(id)
    /\ \E id \in removed : ~Exists(id) /\ \A o \in Addresses : ~Holds(o, id)

\* C6: while the store is paused every addTask (both forms, any caller) is
\* rejected with the paused error and changes nothing; setPaused(false) by
\* the administrator unpauses, and in an unpaused store an addTask with a
\* valid priority by a caller below the limit succeeds.
AddSucceeds(sender) ==
    /\ last'.status = Ok
    /\ last'.ret = _taskIdCounter
    /\ _tasks'[last'.ret].owner = sender
    /\ getTaskCount(sender)'.ret = getTaskCount(sender).ret + 1

C6_PausedBlocksAdd ==
    [][/\ last'.op = "addTask" =>
            \A sender \in Callers, priority \in SpecPriorities :
                Add4Call(sender, priority) =>
                    /\ _paused => Refused(ErrPaused)
                    /\ (~_paused /\ priority <= High
                          /\ getTaskCount(sender).ret < _maxTasksPerUser)
                           => AddSucceeds(sender)
       /\ last'.op = "addTask2" =>
            \A sender \in Callers :
                Add2Call(sender) =>
                    /\ _paused => Refused(ErrPaused)
                    /\ (~_paused /\ getTaskCount(sender).ret < _maxTasksPerUser)
                           => AddSucceeds(sender)
       /\ SetPausedCall(_owner, FALSE) => (last'.status = Ok /\ ~_paused')]_vars

\* the store is paused, holds a task, and the last addTask was refused as paused
C6_Witness ==
    /\ _paused /\ last.op \in AddOps /\ last.status = ErrPaused
    /\ Len(added) >= 1

\* C7 as stated: while the store is paused, deleteTask and
\* setTaskCompletion/completeTask/uncompleteTask by the task's owner succeed
\* and take effect.
C7_Original ==
    [][(_paused /\ last'.op \in CompletionOps \cup {"deleteTask"}) =>
       \A sender \in Callers, taskId \in TaskIds :
        OwnerOf(sender, taskId) =>
            /\ DeleteCall(sender, taskId) =>
                   (last'.status = Ok /\ ~Exists(taskId)')
            /\ \A status \in BOOLEAN :
                   SetCompletionCall(sender, taskId, status) =>
                       (last'.status = Ok /\ _tasks'[taskId].completed = status)
            /\ CompleteCall(sender, taskId) =>
                   (last'.status = Ok /\ _tasks'[taskId].completed)
            /\ UncompleteCall(sender, taskId) =>
                   (last'.status = Ok /\ ~_tasks'[taskId].completed)]_vars

\* the reads: no view function looks at the paused flag
ReadsAvailable ==
    /\ isPaused.status = Ok /\ getMaxTasksPerUser.status = Ok
    /\ getTotalTaskCount(_owner).status = Ok
    /\ \A id \in TaskIds : getTask(id).status = Ok
    /\ \A c \in Callers :
          /\ fetchAllTasks(c).status = Ok /\ getTaskCount(c).status = Ok
          /\ fetchTasksDueSoon(c).status = Ok
          /\ \A b \in BOOLEAN : fetchTasksByStatus(c, b).status = Ok
          /\ \A p \in Low..High : fetchTasksByPriority(c, p).status = Ok

\* C7 amended: while the store is paused, deleteTask and
\* setTaskCompletion/completeTask/uncompleteTask by the task's owner are
\* rejected with the paused error and change nothing; the reads stay available.
C7_PausedBlocksDeleteAndCompletion ==
    /\ [](_paused => ReadsAvailable)
    /\ [][(_paused /\ last'.op \in CompletionOps \cup {"deleteTask"}) =>
            \A sender \in Callers, taskId \in TaskIds :
                (OwnerOf(sender, taskId)
                   /\ (DeleteCall(sender, taskId) \/ CompletionCall(sender, taskId)))
                    => Refused(ErrPaused)]_vars

\* paused, every identifier a stored task, the last deleteTask refused as paused
C7_Witness ==
    /\ _paused /\ last.op = "deleteTask" /\ last.status = ErrPaused
    /\ \A id \in TaskIds : Exists(id)

\* C8 as stated: while the store is paused, editTask (either form) by the
\* task's owner with valid arguments succeeds and overwrites the fields.
C8_Original ==
    [][(_paused /\ last'.op \in EditOps) =>
       \A sender \in Callers, taskId \in TaskIds :
        OwnerOf(sender, taskId) =>
            /\ \A priority \in SpecPriorities :
                   (priority <= High /\ Edit5Call(sender, taskId, priority)) =>
                       /\ last'.status = Ok
                       /\ _tasks'[taskId].title = EditText[1]
                       /\ _tasks'[taskId].priority = priority
            /\ Edit3Call(sender, taskId) =>
                   (last'.status = Ok /\ _tasks'[taskId].title = EditText[1])]_vars

\* C8 amended: editTask is gated by the paused flag like addTask: while the
\* store is paused, editTask (either form) by the task's owner is rejected
\* with the paused error and changes nothing.
C8_PausedBlocksEdit ==
    [][(_paused /\ last'.op \in EditOps) =>
        \A sender \in Callers, taskId \in TaskIds :
            (OwnerOf(sender, taskId) /\ EditCall(sender, taskId))
                => Refused(ErrPaused)]_vars

\* paused, every identifier a stored task, the last editTask refused as paused
C8_Witness ==
    /\ _paused /\ last.op \in EditOps /\ last.status = ErrPaused
    /\ \A id \in TaskIds : Exists(id)

\* C9: addTask is rejected with the limit error, changing nothing, exactly
\* when the store is not paused, the priority is valid and the caller's task
\* count is at or above the maximum; below the maximum it succeeds.
AddOutcome(sender, priority) ==
    LET atLimit == getTaskCount(sender).ret >= _maxTasksPerUser
    IN  /\ (last'.status = ErrLimit) <=> (~_paused /\ priority <= High /\ atLimit)
        /\ (last'.status = ErrLimit) => Refused(ErrLimit)
        /\ (~_paused /\ priority <= High /\ ~atLimit) =>
               /\ last'.status = Ok
               /\ getTaskCount(sender)'.ret = getTaskCount(sender).ret + 1

C9_LimitError ==
    [][/\ last'.op = "addTask" =>
            \A sender \in Callers, priority \in SpecPriorities :
                Add4Call(sender, priority) => AddOutcome(sender, priority)
       /\ last'.op = "addTask2" =>
            \A sender \in Callers :
                Add2Call(sender) => AddOutcome(sender, Medium)]_vars

\* limit 1, one task ever created and none deleted, and the last addTask was
\* refused with the limit error: the caller's first create succeeded, the
\* second failed
C9_Witness ==
    /\ _maxTasksPerUser = 1 /\ removed = {} /\ Len(added) = 1
    /\ last.op \in AddOps /\ last.status = ErrLimit

\* C10: setPaused, setMaxTasksPerUser, adminDeleteTask and getTotalTaskCount
\* by a caller other than the administrator are rejected and change nothing;
\* the paused flag and the limit change only in the administrator's calls.
C10_AdminOnly ==
    /\ [](\A sender \in Callers :
             sender # _owner => getTotalTaskCount(sender) = Fail(ErrNotAdmin))
    /\ [][/\ last'.op \in {"setPaused", "setMaxTasksPerUser", "adminDeleteTask"} =>
               \A sender \in Callers :
                   (sender # _owner
                      /\ ( \/ \E paused \in BOOLEAN : SetPausedCall(sender, paused)
                           \/ \E maxTasks \in LimitInputs : SetMaxCall(sender, maxTasks)
                           \/ \E taskId \in TaskIds : AdminDeleteCall(sender, taskId)))
                       => Refused(ErrNotAdmin)
          /\ _paused' # _paused => \E paused \in BOOLEAN : SetPausedCall(_owner, paused)
          /\ _maxTasksPerUser' # _maxTasksPerUser =>
                 \E maxTasks \in LimitInputs : SetMaxCall(_owner, maxTasks)]_vars

\* every identifier is a stored task and the last adminDeleteTask was refused
C10_Witness ==
    /\ last.op = "adminDeleteTask" /\ last.status = ErrNotAdmin
    /\ \A id \in TaskIds : Exists(id)

\* C11: adminDeleteTask(id) by the administrator on an existing task owned by
\* any user u, in either pause state, succeeds, removes id from u's index
\* (u's count drops by exactly 1) and the record, and leaves every other
\* record, every other owner's index, the counter, the paused flag and the
\* limit unchanged.
C11_AdminDeleteFrame ==
    [][last'.op = "adminDeleteTask" =>
        \A taskId \in TaskIds, u \in Callers :
            (OwnerOf(u, taskId) /\ AdminDeleteCall(_owner, taskId)) =>
                /\ last'.status = Ok
                /\ Holds(u, taskId) /\ ~Holds(u, taskId)'
                /\ getTaskCount(u)'.ret = getTaskCount(u).ret - 1
                /\ getTask(taskId)' = Return(ZeroTask)
                /\ \A id \in TaskIds \ {taskId} : _tasks'[id] = _tasks[id]
                /\ \A o \in Addresses \ {u} : _userTasks'[o] = _userTasks[o]
                /\ UNCHANGED <<_taskIdCounter, _paused, _maxTasksPerUser>>]_vars

\* the store is paused and the administrator has just removed a task of
\* addr1 while another task is still stored
C11_Witness ==
    /\ _paused /\ last.op = "adminDeleteTask" /\ last.status = Ok
    /\ \E i \in 1..Len(added) : added[i].owner = "addr1" /\ added[i].taskId \in removed
    /\ \E id \in TaskIds : Exists(id)
    /\ _owner # "addr1"

\* a successful call that logged nothing and changed nothing
SilentNoOp == last'.status = Ok /\ last'.events = <<>> /\ UNCHANGED contract

\* the setters log their event exactly when the stored value changes, and
\* the administrator passing the stored value is a silent success
AdminSettersEmitOnChange ==
    /\ last'.op = "setPaused" =>
          /\ (last'.events # <<>>) <=> (_paused' # _paused)
          /\ (last'.events # <<>>) =>
                 last'.events = <<[name |-> "ContractPaused", paused |-> _paused']>>
          /\ SetPausedCall(_owner, _paused) => SilentNoOp
    /\ last'.op = "setMaxTasksPerUser" =>
          /\ (last'.events # <<>>) <=> (_maxTasksPerUser' # _maxTasksPerUser)
          /\ (last'.events # <<>>) =>
                 last'.events = <<[name |-> "MaxTasksPerUserChanged",
                                   maxTasks |-> _maxTasksPerUser']>>
          /\ SetMaxCall(_owner, _maxTasksPerUser) => SilentNoOp

\* a call that sets the completion flag of taskId to status
CompletionWith(sender, taskId, status) ==
    \/ SetCompletionCall(sender, taskId, status)
    \/ status /\ CompleteCall(sender, taskId)
    \/ ~status /\ UncompleteCall(sender, taskId)

\* the completion calls log TaskCompleted exactly when a stored flag changes,
\* naming the task and its new flag; the task's owner passing the stored flag
\* gets NoOpOutcome
CompletionEmitsOnChange(NoOpOutcome) ==
    last'.op \in CompletionOps =>
        /\ (last'.events # <<>>) <=>
               (\E id \in TaskIds : _tasks'[id].completed # _tasks[id].completed)
        /\ (last'.events # <<>>) =>
               \E id \in TaskIds :
                   /\ _tasks'[id].completed # _tasks[id].completed
                   /\ last'.events = <<[name |-> "TaskCompleted", taskId |-> id,
                                        completed |-> _tasks'[id].completed]>>
        /\ \A sender \in Callers, taskId \in TaskIds :
               (OwnerOf(sender, taskId)
                  /\ CompletionWith(sender, taskId, _tasks[taskId].completed))
                   => NoOpOutcome

\* C19 as stated: setTaskCompletion, setPaused and setMaxTasksPerUser log
\* their event exactly when the call changes the stored value, and a call by
\* an authorized caller passing the stored value succeeds, logs nothing and
\* changes nothing.
C19_Original ==
    [][AdminSettersEmitOnChange /\ CompletionEmitsOnChange(SilentNoOp)]_vars

\* C19 amended: the events are logged exactly when the stored value changes;
\* the administrator passing the stored value to setPaused or
\* setMaxTasksPerUser, and the task's owner passing the stored flag to
\* setTaskCompletion while the store is not paused, succeed silently and
\* change nothing; while the store is paused the owner's setTaskCompletion is
\* rejected with the paused error.
C19_EventsOnChange ==
    [][/\ AdminSettersEmitOnChange
       /\ CompletionEmitsOnChange(IF _paused THEN Refused(ErrPaused)
                                  ELSE SilentNoOp)]_vars

\* a completion call on a completed task that succeeded without an event
C19_Witness ==
    /\ last.op \in CompletionOps /\ last.status = Ok /\ last.events = <<>>
    /\ \A id \in TaskIds : Exists(id) /\ _tasks[id].completed

Returned(view) == {view.ret[i] : i \in 1..Len(view.ret)}
\* the records of the tasks in c's index
TasksOf(c) == {_tasks[_userTasks[c][i]] : i \in 1..Len(_userTasks[c])}

\* C12 as stated: fetchTasksDueSoon called by c at time now returns exactly
\* c's tasks that are incomplete, have a non-zero due date and whose due date
\* lies in the next 24 hours (now <= dueDate <= now + 24h), and nothing else.
C12_DueSoonWindow ==
    \A c \in DueCallers :
        /\ fetchTasksDueSoon(c).status = Ok
        /\ Returned(fetchTasksDueSoon(c)) =
               {task \in TasksOf(c) :
                   /\ ~task.completed /\ task.dueDate # 0
                   /\ now <= task.dueDate /\ task.dueDate <= now + OneDay}

\* fetchTasksDueSoon returns a task whose due date has passed
C12_Witness ==
    \E c \in DueCallers : \E task \in Returned(fetchTasksDueSoon(c)) :
        task.dueDate < now /\ task.createdAt < now

\* C13: fetchTasksDueSoon never returns a completed task or a task without a
\* due date; a task created with due date now + 3600 is returned by its
\* owner's fetchTasksDueSoon right after creation, and is not returned once
\* its owner has completed it.
C13_NeverCompletedOrUnset ==
    \A c \in DueCallers : \A task \in Returned(fetchTasksDueSoon(c)) :
        ~task.completed /\ task.dueDate # 0

C13_DueSoonLifecycle ==
    /\ []C13_NeverCompletedOrUnset
    /\ [][/\ last'.op = "addTask" =>
               \A sender \in DueCallers :
                   addTask(sender, AddText[1], AddText[2], High, now + OneHour) =>
                       /\ last'.status = Ok
                       /\ \E id \in TaskIds :
                              /\ id = last'.ret
                              /\ getTask(id)'.ret.dueDate = now + OneHour
                              /\ getTask(id)'.ret \in Returned(fetchTasksDueSoon(sender))'
          /\ last'.op = "completeTask" =>
               \A sender \in DueCallers, taskId \in TaskIds :
                   (OwnerOf(sender, taskId)
                      /\ _tasks[taskId].dueDate = _tasks[taskId].createdAt + OneHour
                      /\ completeTask(sender, taskId)) =>
                       /\ last'.status = Ok
                       /\ \A task \in Returned(fetchTasksDueSoon(sender))' :
                              task.id # taskId]_vars

\* a task due an hour after its creation has just been completed by its
\* owner, whose other task is still due soon
C13_Witness ==
    /\ last.op = "completeTask" /\ last.status = Ok /\ last.events # <<>>
    /\ \E c \in DueCallers :
          /\ \E task \in TasksOf(c) :
                 task.completed /\ task.dueDate = task.createdAt + OneHour
          /\ Len(fetchTasksDueSoon(c).ret) = 1
          /\ Len(_userTasks[c]) = 2

\* C15: from the step that creates a task until the step that removes it,
\* the task's id, owner and creation timestamp never change, whatever the
\* callers do; the id is the task's key and the creation timestamp is the
\* block time of the creating call.
C15_IdentityImmutable ==
    /\ [](\A id \in TaskIds : Exists(id) =>
              /\ _tasks[id].id = id
              /\ \E i \in 1..Len(added) :
                     added[i].taskId = id /\ added[i].owner = _tasks[id].owner)
    /\ [][/\ \A id \in TaskIds :
                 (Exists(id) /\ Exists(id)') =>
                     /\ _tasks'[id].id = _tasks[id].id
                     /\ _tasks'[id].owner = _tasks[id].owner
                     /\ _tasks'[id].createdAt = _tasks[id].createdAt
          /\ \A id \in TaskIds :
                 (~Exists(id) /\ Exists(id)') =>
                     /\ last'.op \in AddOps /\ last'.ret = id
                     /\ _tasks'[id].createdAt = now
          /\ \A id \in TaskIds :
                 (Exists(id) /\ ~Exists(id)') =>
                     last'.op \in {"deleteTask", "adminDeleteTask"}]_vars

\* a task of addr1 has just been edited while the limit is 1 and another
\* task has been removed
C15_Witness ==
    /\ last.op \in EditOps /\ last.status = Ok
    /\ removed # {} /\ _maxTasksPerUser = 1
    /\ \E id \in TaskIds :
          /\ Exists(id) /\ _tasks[id].owner = "addr1" /\ _tasks[id].completed
          /\ _tasks[id].createdAt = StartTime

\* the fields an edit must leave alone, and the rest of the contract
EditFrame(taskId, fields) ==
    /\ \A id \in TaskIds \ {taskId} : _tasks'[id] = _tasks[id]
    /\ \A f \in DOMAIN ZeroTask \ fields : _tasks'[taskId][f] = _tasks[taskId][f]
    /\ UNCHANGED <<_taskIdCounter, _userTasks, _paused, _maxTasksPerUser, _owner,
                   now, added, removed>>

\* C14: the short form editTask(id, title, description) by the owner changes
\* only the title and description of task id (priority, due date, completion
\* flag, id, owner, creation timestamp and every other task keep their
\* values); the long form additionally overwrites priority and due date and
\* nothing else.
C14_EditFrame ==
    [][/\ last'.op = "editTask3" =>
            \A sender \in EditCallers, taskId \in TaskIds :
                (OwnerOf(sender, taskId)
                   /\ editTask3(sender, taskId, EditedText[1], EditedText[2])) =>
                    /\ last'.status = Ok
                    /\ _tasks'[taskId].title = EditedText[1]
                    /\ _tasks'[taskId].description = EditedText[2]
                    /\ EditFrame(taskId, {"title", "description"})
       /\ last'.op = "editTask" =>
            \A sender \in EditCallers, taskId \in TaskIds :
                (OwnerOf(sender, taskId)
                   /\ editTask(sender, taskId, EditedText[1], EditedText[2],
                               Low, LaterDue)) =>
                    /\ last'.status = Ok
                    /\ _tasks'[taskId].title = EditedText[1]
                    /\ _tasks'[taskId].description = EditedText[2]
                    /\ _tasks'[taskId].priority = Low
                    /\ _tasks'[taskId].dueDate = LaterDue
                    /\ EditFrame(taskId, {"title", "description", "priority",
                                          "dueDate"})]_vars

\* the short form has just rewritten the title of a completed High task due
\* in an hour, which kept its priority, due date and flag, while the other
\* task is the other caller's
C14_Witness ==
    /\ last.op = "editTask3" /\ last.status = Ok
    /\ \E id \in TaskIds :
          /\ _tasks[id].title = EditedText[1] /\ _tasks[id].priority = High
          /\ _tasks[id].dueDate = now + OneHour /\ _tasks[id].completed
          /\ last.events[1].taskId = id
          /\ \E other \in TaskIds :
                 Exists(other) /\ _tasks[other].owner # _tasks[id].owner

\* the effect of a successful creation by sender with the given fields
AddEffect(sender, title, description, priority, dueDate) ==
    /\ last'.status = Ok /\ last'.ret = _taskIdCounter
    /\ _taskIdCounter' = _taskIdCounter + 1
    /\ \E id \in TaskIds :
          /\ id = _taskIdCounter
          /\ getTask(id)' = Return([id |-> id, title |-> title,
                                    description |-> description, completed |-> FALSE,
                                    owner |-> sender, priority |-> priority,
                                    dueDate |-> dueDate, createdAt |-> now])
          /\ \A other \in TaskIds \ {id} : _tasks'[other] = _tasks[other]
    /\ _userTasks'[sender] = Append(_userTasks[sender], _taskIdCounter)
    /\ \A o \in Addresses \ {sender} : _userTasks'[o] = _userTasks[o]
    /\ UNCHANGED <<_paused, _maxTasksPerUser, _owner, now>>

\* C16: a successful addTask(title, description, priority, dueDate) by c
\* takes the counter as the new id, increments the counter, stores the record
\* (owner c, not completed, the given priority and due date, createdAt the
\* block time), appends the id at the end of c's index, returns the id and
\* leaves every other record and index unchanged; addTask(title, description)
\* has the effect of addTask(title, description, Medium, 0).
C16_AddEffect ==
    [][/\ (last'.op = "addTask" /\ last'.status = Ok) =>
            \A sender \in DueCallers, dueDate \in DueInputs :
                addTask(sender, AddText[1], AddText[2], High, dueDate) =>
                    AddEffect(sender, AddText[1], AddText[2], High, dueDate)
       /\ (last'.op = "addTask2" /\ last'.status = Ok) =>
            \A sender \in DueCallers :
                addTask2(sender, AddText[1], AddText[2]) =>
                    AddEffect(sender, AddText[1], AddText[2], Medium, 0)]_vars

\* in a later block the short form has just appended a Medium task without
\* due date behind the task the caller created in an earlier block
C16_Witness ==
    /\ last.op = "addTask2" /\ last.status = Ok /\ now > StartTime
    /\ \E c \in DueCallers :
          /\ Len(_userTasks[c]) = 2
          /\ _userTasks[c][2] = last.ret
          /\ _tasks[last.ret].createdAt = now /\ _tasks[last.ret].priority = Medium
          /\ _tasks[_userTasks[c][1]].createdAt < now

\* c created tasks and none of them has been deleted
NoneDeleted(c) ==
    \A k \in 1..Len(added) : added[k].owner = c => added[k].taskId \notin removed
\* the ids c created, in creation order
CreatedBy(c) ==
    LET Mine(entry) == entry.owner = c
        mine == SelectSeq(added, Mine)
    IN  [k \in 1..Len(mine) |-> mine[k].taskId]

\* C17: fetchAllTasks called by c returns exactly the records of the ids in
\* c's index, in index order, and never a task of another owner; for a caller
\* none of whose tasks has been deleted that order is creation order
\* (ascending id).
C17_FetchAllIsIndex ==
    \A c \in EditCallers :
        LET all == fetchAllTasks(c) IN
        /\ all.status = Ok
        /\ Len(all.ret) = Len(_userTasks[c])
        /\ \A i \in 1..Len(all.ret) :
              /\ all.ret[i] = getTask(_userTasks[c][i]).ret
              /\ all.ret[i].id = _userTasks[c][i]
              /\ all.ret[i].owner = c
        /\ NoneDeleted(c) =>
              /\ \A i, j \in 1..Len(all.ret) : i < j => all.ret[i].id < all.ret[j].id
              /\ [i \in 1..Len(all.ret) |-> all.ret[i].id] = CreatedBy(c)

\* a caller fetches their two tasks, the first edited and completed, in
\* creation order
C17_Witness ==
    \E c \in EditCallers :
        /\ Len(fetchAllTasks(c).ret) = 2 /\ NoneDeleted(c)
        /\ fetchAllTasks(c).ret[1].id = 0 /\ fetchAllTasks(c).ret[1].completed
        /\ fetchAllTasks(c).ret[1].title = EditedText[1]
        /\ fetchAllTasks(c).ret[2].id = 1 /\ fetchAllTasks(c).ret[2].title = AddText[1]

\* sub is the subsequence of all made of the elements that pass Keep, in the
\* same relative order: the k-th position that passes holds sub[k]
IsSubsequenceWhere(sub, all, Keep(_)) ==
    LET positions == {i \in 1..Len(all) : Keep(all[i])}
        Rank(i) == Cardinality({j \in positions : j <= i})
    IN  /\ Len(sub) = Cardinality(positions)
        /\ \A i \in positions : sub[Rank(i)] = all[i]

\* C18: fetchTasksByStatus(b) and fetchTasksByPriority(p) called by c return
\* exactly the subsequence of c's fetchAllTasks result whose completion flag
\* equals b, respectively whose priority equals p, in the same relative
\* order; the two status results partition fetchAllTasks and their lengths
\* sum to getTaskCount.
C18_FiltersAreSubsequences ==
    \A c \in EditCallers :
        LET all == fetchAllTasks(c).ret
            done == fetchTasksByStatus(c, TRUE)
            open == fetchTasksByStatus(c, FALSE)
        IN  /\ \A b \in BOOLEAN :
                  LET Keep(task) == task.completed = b
                  IN  /\ fetchTasksByStatus(c, b).status = Ok
                      /\ IsSubsequenceWhere(fetchTasksByStatus(c, b).ret, all, Keep)
            /\ \A p \in Low..High :
                  LET Keep(task) == task.priority = p
                  IN  /\ fetchTasksByPriority(c, p).status = Ok
                      /\ IsSubsequenceWhere(fetchTasksByPriority(c, p).ret, all, Keep)
            /\ Len(done.ret) + Len(open.ret) = getTaskCount(c).ret
            /\ Returned(done) \cup Returned(open) = {all[i] : i \in 1..Len(all)}
            /\ Returned(done) \cap Returned(open) = {}

\* a caller holds an open High task followed by a completed Low one: each
\* filter returns one of the two
C18_Witness ==
    \E c \in EditCallers :
        /\ getTaskCount(c).ret = 2
        /\ Len(fetchTasksByStatus(c, TRUE).ret) = 1
        /\ fetchTasksByStatus(c, TRUE).ret[1].id = 1
        /\ Len(fetchTasksByPriority(c, High).ret) = 1
        /\ fetchTasksByPriority(c, High).ret[1].id = 0
        /\ Len(fetchTasksByPriority(c, Low).ret) = 1
        /\ fetchTasksByPriority(c, Low).ret[1].completed

\* the outcome of addTask and of the owner's editTask with a priority above
\* High: refused with the given reason, nothing created, nothing overwritten
InvalidPriorityRefused(reason) ==
    /\ last'.op = "addTask" =>
          \A sender \in Callers :
              Add4Call(sender, High + 1) =>
                  /\ Refused(reason)
                  /\ _taskIdCounter' = _taskIdCounter
                  /\ getTaskCount(sender)' = getTaskCount(sender)
    /\ last'.op = "editTask" =>
          \A sender \in Callers, taskId \in TaskIds :
              (OwnerOf(sender, taskId) /\ Edit5Call(sender, taskId, High + 1)) =>
                  /\ Refused(reason)
                  /\ getTask(taskId)' = getTask(taskId)

InvalidPriorityQueryFails ==
    \A c \in Callers : fetchTasksByPriority(c, High + 1) = Fail(ErrPriority)

\* C21 as stated: addTask (four arguments), editTask (five arguments) and
\* fetchTasksByPriority with a priority above High are rejected with the
\* invalid-priority error, creating and overwriting nothing.
C21_Original ==
    /\ []InvalidPriorityQueryFails
    /\ [][InvalidPriorityRefused(ErrPriority)]_vars

\* C21 amended: such calls are always rejected and create and overwrite
\* nothing; fetchTasksByPriority fails with the invalid-priority error, and
\* addTask and the owner's editTask fail with the invalid-priority error
\* while the store is not paused and with the paused error while it is.
C21_InvalidPriorityRejected ==
    /\ []InvalidPriorityQueryFails
    /\ [][InvalidPriorityRefused(IF _paused THEN ErrPaused ELSE ErrPriority)]_vars

\* every identifier is a stored task and the last editTask was refused for
\* its priority
C21_Witness ==
    /\ last.op = "editTask" /\ last.status = ErrPriority
    /\ \A id \in TaskIds : Exists(id)

\* the ids in an index, as a set
IdsOf(index) == {index[k] : k \in 1..Len(index)}

\* new is old with the id at position i swapped with the last and popped
SwappedWithLastAndShrunk(old, new, i) ==
    LET n == Len(old) IN
    /\ Len(new) = n - 1
    /\ i < n => new[i] = old[n]
    /\ \A j \in 1..(n - 1) : j # i => new[j] = old[j]
    /\ IdsOf(new) = IdsOf(old) \ {old[i]}

PositionsOf(o, id) == {k \in 1..Len(_userTasks[o]) : _userTasks[o][k] = id}

\* C24: each existing task record (owner non-zero) has its id exactly once in
\* its owner's index and in no other owner's index; no index holds an id
\* twice and no record is absent from every index.
C24_RecordIndexedOnce ==
    /\ \A id \in TaskIds :
          Exists(id) =>
              /\ Cardinality(PositionsOf(_tasks[id].owner, id)) = 1
              /\ \A o \in Addresses \ {_tasks[id].owner} : PositionsOf(o, id) = {}
              /\ \E o \in Addresses : PositionsOf(o, id) # {}
    /\ \A o \in Addresses :
          \A i, j \in 1..Len(_userTasks[o]) :
              _userTasks[o][i] = _userTasks[o][j] => i = j

\* two callers created a task each; the administrator has just removed the
\* first, the second is still stored and indexed under addr2
C24_Witness ==
    /\ last.op = "adminDeleteTask" /\ last.status = Ok
    /\ Len(added) = 2 /\ added[1].owner # added[2].owner
    /\ removed = {0} /\ Exists(1) /\ _tasks[1].owner = "addr2"
    /\ _userTasks["addr2"] = <<1>>

\* the step is a call of some function of the contract by sender
CallBy(sender) ==
    \/ \E priority \in SpecPriorities : Add4Call(sender, priority)
    \/ Add2Call(sender)
    \/ \E taskId \in TaskIds : EditCall(sender, taskId)
    \/ \E taskId \in TaskIds : CompletionCall(sender, taskId)
    \/ \E taskId \in TaskIds : DeleteCall(sender, taskId)
    \/ \E taskId \in TaskIds : AdminDeleteCall(sender, taskId)
    \/ \E paused \in BOOLEAN : SetPausedCall(sender, paused)
    \/ \E maxTasks \in LimitInputs : SetMaxCall(sender, maxTasks)

\* what a call of c leaves alone: the records and indexes of the others, the
\* paused flag and the limit
OthersUntouched(c) ==
    /\ \A id \in TaskIds :
          (Exists(id) /\ _tasks[id].owner # c) => _tasks'[id] = _tasks[id]
    /\ \A o \in Addresses \ {c} : _userTasks'[o] = _userTasks[o]
    /\ UNCHANGED <<_paused, _maxTasksPerUser, _owner>>

\* C25: any operation by a caller c who is not the administrator leaves
\* unchanged every task record whose owner is not c, every other owner's
\* index (contents and order), the paused flag and the limit; of the state
\* shared with the others it can change the global counter only.
C25_NonAdminFrame ==
    [][\/ UNCHANGED <<_tasks, _userTasks, _paused, _maxTasksPerUser, _owner>>
       \/ \A c \in Callers \ {_owner} :
              OthersUntouched(c) \/ ~CallBy(c)]_vars

\* a completion call has just set the flag of addr1's task while addr2's
\* task is stored and the counter has passed both
C25_Witness ==
    /\ last.op \in CompletionOps /\ last.status = Ok /\ last.events # <<>>
    /\ _owner = "owner" /\ _taskIdCounter = 2
    /\ \E id, other \in TaskIds :
          /\ _tasks[id].owner = "addr1" /\ _tasks[id].completed
          /\ last.events[1].taskId = id
          /\ _tasks[other].owner = "addr2" /\ ~_tasks[other].completed

\* the step is a call of the function family on an id without a record
EditOfMissing ==
    \E sender \in Callers, taskId \in TaskIds :
        ~Exists(taskId) /\ EditCall(sender, taskId)
CompletionOfMissing ==
    \E sender \in Callers, taskId \in TaskIds :
        ~Exists(taskId) /\ CompletionCall(sender, taskId)
DeleteOfMissing ==
    \E sender \in Callers, taskId \in TaskIds :
        ~Exists(taskId) /\ DeleteCall(sender, taskId)

\* C26 as stated: editTask, setTaskCompletion and deleteTask on an id that
\* has no record (never created or already removed) are rejected with the
\* authorization error for every caller and change nothing.
C26_Original ==
    [][/\ (last'.op \in EditOps /\ EditOfMissing) => Refused(ErrEdit)
       /\ (last'.op \in CompletionOps /\ CompletionOfMissing) => Refused(ErrModify)
       /\ (last'.op = "deleteTask" /\ DeleteOfMissing) => Refused(ErrDelete)]_vars

\* C26 amended: such a call is rejected for every caller and changes nothing
\* (a second deleteTask of an id does not shrink the index again); the error
\* is the authorization error while the store is not paused and the paused
\* error while it is paused.
C26_MissingTaskRejected ==
    [][/\ (last'.op \in EditOps /\ EditOfMissing) =>
              Refused(IF _paused THEN ErrPaused ELSE ErrEdit)
       /\ (last'.op \in CompletionOps /\ CompletionOfMissing) =>
              Refused(IF _paused THEN ErrPaused ELSE ErrModify)
       /\ (last'.op = "deleteTask" /\ DeleteOfMissing) =>
              Refused(IF _paused THEN ErrPaused ELSE ErrDelete)]_vars

\* both tasks have been created and removed, and a further deleteTask has
\* just been refused with the authorization error
C26_Witness ==
    /\ last.op = "deleteTask" /\ last.status = ErrDelete
    /\ removed = {0, 1} /\ \A id \in TaskIds : ~Exists(id)
    /\ \A o \in Addresses : _userTasks[o] = <<>>

\* C27: adminDeleteTask by the administrator on an id that has no record
\* (never created or already removed) is not rejected: it leaves every
\* record, every index and the counter unchanged and still logs TaskDeleted
\* for that id.
C27_AdminDeleteOfMissing ==
    [][last'.op = "adminDeleteTask" =>
        \A taskId \in TaskIds :
            (~Exists(taskId) /\ AdminDeleteCall(_owner, taskId)) =>
                /\ last'.status = Ok
                /\ last'.events = <<[name |-> "TaskDeleted", taskId |-> taskId]>>
                /\ UNCHANGED <<_tasks, _userTasks, _taskIdCounter>>
                /\ UNCHANGED contract]_vars

\* no task has ever been created and an adminDeleteTask has just succeeded,
\* logging TaskDeleted
C27_Witness ==
    /\ last.op = "adminDeleteTask" /\ last.status = Ok
    /\ added = <<>> /\ _taskIdCounter = 0
    /\ last.events = <<[name |-> "TaskDeleted", taskId |-> 1]>>

\* the administrator lowering the limit below an owner's count succeeds and
\* removes nothing
LoweringKeepsTasks ==
    last'.op = "setMaxTasksPerUser" =>
        \A maxTasks \in LimitInputs :
            ((\E c \in Callers : maxTasks < getTaskCount(c).ret)
               /\ SetMaxCall(_owner, maxTasks)) =>
                /\ last'.status = Ok
                /\ getMaxTasksPerUser' = Return(maxTasks)
                /\ UNCHANGED <<_tasks, _userTasks, _taskIdCounter>>

\* a successful addTask leaves the caller's count within the limit in force
AddStaysWithinLimit ==
    (last'.op \in AddOps /\ last'.status = Ok) =>
        \A sender \in Callers :
            ((\E priority \in SpecPriorities : Add4Call(sender, priority))
               \/ Add2Call(sender)) =>
                getTaskCount(sender)'.ret <= _maxTasksPerUser

\* every addTask of an owner at or above the limit is refused, for Reason
AtLimitRefused(Reason(_)) ==
    /\ last'.op = "addTask" =>
          \A sender \in Callers, priority \in SpecPriorities :
              (getTaskCount(sender).ret >= _maxTasksPerUser
                 /\ Add4Call(sender, priority)) => Refused(Reason(priority))
    /\ last'.op = "addTask2" =>
          \A sender \in Callers :
              (getTaskCount(sender).ret >= _maxTasksPerUser /\ Add2Call(sender))
                  => Refused(Reason(Medium))

LimitReason(priority) == ErrLimit
FirstFailingCheck(priority) ==
    IF _paused THEN ErrPaused
    ELSE IF ~(priority <= High) THEN ErrPriority
    ELSE ErrLimit

\* C28 as stated: setMaxTasksPerUser(n) with n below an owner's count
\* succeeds and removes no task; every addTask by an owner whose count is at
\* or above the limit is rejected with the limit error; addTask never raises
\* the caller's count above the limit in force.
C28_Original ==
    [][LoweringKeepsTasks /\ AddStaysWithinLimit /\ AtLimitRefused(LimitReason)]_vars

\* C28 amended: as stated, except that the rejected addTask carries the limit
\* error only while the store is not paused and the priority is valid; while
\* paused it carries the paused error, and with an invalid priority in an
\* unpaused store the invalid-priority error.
C28_LoweredLimit ==
    [][/\ LoweringKeepsTasks /\ AddStaysWithinLimit
       /\ AtLimitRefused(FirstFailingCheck)]_vars

\* the limit is 1, one caller holds two tasks, and an addTask has just been
\* refused with the limit error
C28_Witness ==
    /\ _maxTasksPerUser = 1
    /\ \E c \in Callers : getTaskCount(c).ret = 2
    /\ last.op \in AddOps /\ last.status = ErrLimit

\* ------------------------------------------------------------- frontend
\* the list TaskList shows is what fetchAllTasks returns for the connected
\* account, in the shape of the list
ListEqualsStore == tasks = formattedTasks(getAllTasks)

\* the handler of a successful write returns in this step
WriteReturns ==
    \E c \in calls :
        \/ c.ok /\ PageHandlerResumes(c)
        \/ c.kind \in {"toggle", "delete"} /\ fetchTasksResumes(c)

\* C23 as stated: when the handler of a successful UI write (add, edit,
\* completion toggle, delete) returns and no other handler is in flight,
\* the list shown by TaskList equals fetchAllTasks of the connected account.
C23_ListFollowsWrite ==
    [][(WriteReturns /\ calls' = {}) => ListEqualsStore']_vars

\* C23: the page is idle after a task was added through it, and the list
\* does not show what the store returns.
C23_Witness ==
    /\ calls = {}
    /\ last.op = "addTask2" /\ last.status = Ok
    /\ ~ListEqualsStore

\* the entry of the list for id shows the flag the store holds for it
FlagShownIsStored(id) ==
    \A i \in 1..Len(tasks) :
        tasks[i].id = id => tasks[i].completed = _tasks[Number(id)].completed

\* C29 as stated: the transaction of handleToggleComplete inverts the stored
\* completion flag of the task (completed becomes pending, pending becomes
\* completed), and when its refetch has been applied the flag shown for the
\* task equals the stored one.
C29_ToggleFlipsStoredFlag ==
    [][\A c \in calls :
          c.kind = "toggle" =>
              /\ (Mined(c) /\ last'.status = Ok) =>
                     \E id \in TaskIds :
                         /\ id = Number(c.id)
                         /\ _tasks'[id].completed = ~_tasks[id].completed
              /\ (fetchTasksResumes(c) /\ calls' = {}) => FlagShownIsStored(c.id)']_vars

\* C29: the toggle of a task shown as completed ("Mark Incomplete") has
\* been mined successfully without an event, and the stored flag is still true.
C29_Witness ==
    \E c \in calls :
        /\ c.kind = "toggle" /\ c.pc = "mined" /\ c.ok
        /\ \E i \in 1..Len(tasks) : tasks[i].id = c.id /\ tasks[i].completed
        /\ last.op = "completeTask" /\ last.events = <<>>
        /\ _tasks[Number(c.id)].completed

\* C30 as stated: when toggles and deletes of different tasks overlap, each
\* followed by its own fetchTasks, the list applied by the last fetchTasks
\* to return equals fetchAllTasks of the connected account.
C30_NoStaleOverwrite ==
    [][(\E c \in calls : fetchTasksResumes(c) /\ c.kind \in {"toggle", "delete"} /\ calls' = {})
          => ListEqualsStore']_vars

\* C30: a delete and the toggle of another task have both returned, the
\* toggle's transaction being the later one, and the list shows as pending
\* the task that is completed in the store.
C30_Witness ==
    /\ calls = {}
    /\ removed # {}
    /\ last.op = "completeTask" /\ last.status = Ok
    /\ \E i \in 1..Len(tasks) :
           ~tasks[i].completed /\ _tasks[Number(tasks[i].id)].completed

====
